---- MODULE Spec2Model ----
(***************************************************************************)
(* Model of the paper pipeline scripts:                                    *)
(*   extract.py  strip_text_from_svg, extract_pdf_pymupdf, get_output_dir, *)
(*               process_pdfs, rasterize_svg_to_png                        *)
(*   main.py     download_paper, fetch_and_download                        *)
(*                                                                         *)
(* Three specifications share the module:                                  *)
(*   SpecFilter    strip_text_from_svg applied to bounded markup, and to   *)
(*                 its own output                                          *)
(*   Spec          a batch run of process_pdfs                             *)
(*   SpecDownload  the download loop of fetch_and_download                 *)
(***************************************************************************)
EXTENDS Integers, Sequences, FiniteSets, TLC

\* ------------------------------------------------------------------ bounds
MaxElems == 4      \* elements in one input document, the root included
MaxDocs == 2       \* PDFs in the source directory
MaxPages == 3      \* pages in one PDF
MaxLimit == 1      \* largest --limit tried
MaxCalls == 4      \* results taken from client.results, over all runs

VARIABLES
    \* SpecFilter
    svg_content,       \* the markup handed to strip_text_from_svg
    filtered_svg,      \* result of strip_text_from_svg(svg_content)
    refiltered_svg,    \* result of strip_text_from_svg on filtered_svg
    fpc,               \* "input" | "filtered" | "refiltered"
    \* Spec (process_pdfs)
    output_type,       \* args.output_type
    listing,           \* os.listdir(source_dir): the entries and what they hold
    rasterize_requested, \* svg mode: whether the caller wants PNGs; no parameter
                       \* or option carries it
    pdfs,              \* the list the loop of process_pdfs runs over
    dirs,              \* directories made by os.makedirs
    files,             \* files written: path -> content
    opened,            \* indices in pdfs handed to fitz.open with success
    pdf_i,             \* position of the loop over pdfs (1-based)
    page_i,            \* page.number of the page at hand
    raised,            \* the exception that left process_pdfs, if any
    reported,          \* "Unsupported type: ..." was printed
    pc,                \* "start" | "doc" | "page" | "raster" | "done" | "raised"
    \* SpecDownload (fetch_and_download)
    pdf_files,         \* papers whose .pdf exists in pdf_output_path
    source_files,      \* papers whose .tar.gz exists in source_output
    calls,             \* results the loop has taken from client.results
    sleeps,            \* seconds spent in time.sleep
    errors,            \* "Error downloading ..." lines printed
    last,              \* what the latest result led to
    dpc                \* "loop" | "done"

fvars == <<svg_content, filtered_svg, refiltered_svg, fpc>>
bvars == <<output_type, listing, rasterize_requested, pdfs, dirs, files,
           opened, pdf_i, page_i, raised, reported, pc>>
dvars == <<pdf_files, source_files, calls, sleeps, errors, last, dpc>>
vars == <<fvars, bvars, dvars>>

\* ------------------------------------------------- markup and element trees
\* Markup (a str) is kept as its syntax: per element the local name as
\* written, the default-namespace declaration it carries (Inherit: none), if
\* it declares the xlink prefix, the attribute names as written, the children.
\* A document adds whether the text is syntactically closed.
\* A parsed Element has a tag <<namespace uri, local name>>, the attribute
\* keys after prefix resolution and the children.

SVG_NS == "http://www.w3.org/2000/svg"
XLINK_NS == "http://www.w3.org/1999/xlink"
NoNS == ""
Inherit == "inherit"

SVG_G == <<SVG_NS, "g">>
SVG_USE == <<SVG_NS, "use">>
DATA_TEXT == "data-text"
XLINK_HREF == "{http://www.w3.org/1999/xlink}href"

\* attribute name as written <-> attribute key of the parsed element
AttrKey(a) == IF a = "xlink:href" THEN XLINK_HREF ELSE a
AttrName(k) == IF k = XLINK_HREF THEN "xlink:href" ELSE k

NoElement == [tag |-> <<NoNS, "">>, attrib |-> {}, kids |-> <<>>]
NoMarkup == [closed |-> FALSE,
             root |-> [name |-> "", xmlns |-> Inherit, xlink |-> FALSE,
                       attrs |-> {}, kids |-> <<>>]]

\* ET.fromstring: expat rejects a prefix no enclosing element declares
RECURSIVE UnboundPrefix(_, _)
UnboundPrefix(m, bound) ==
    LET b == bound \/ m.xlink
    IN  \/ ("xlink:href" \in m.attrs /\ ~b)
        \/ \E i \in 1..Len(m.kids) : UnboundPrefix(m.kids[i], b)

\* ET.fromstring: unprefixed element names take the default namespace in
\* scope, unprefixed attributes take none
RECURSIVE BuildElement(_, _)
BuildElement(m, dns) ==
    LET ns == IF m.xmlns = Inherit THEN dns ELSE m.xmlns
    IN  [tag |-> <<ns, m.name>>,
         attrib |-> {AttrKey(a) : a \in m.attrs},
         kids |-> [i \in 1..Len(m.kids) |-> BuildElement(m.kids[i], ns)]]

\* ET.fromstring(svg_content): ParseError (raised) or the root Element
fromstring(text) ==
    IF ~text.closed \/ UnboundPrefix(text.root, FALSE)
    THEN [raised |-> TRUE, elem |-> NoElement]
    ELSE [raised |-> FALSE, elem |-> BuildElement(text.root, NoNS)]

RECURSIVE UsesNamespace(_, _)
UsesNamespace(e, uri) ==
    \/ e.tag[1] = uri
    \/ \E i \in 1..Len(e.kids) : UsesNamespace(e.kids[i], uri)

RECURSIVE UsesXlink(_)
UsesXlink(e) ==
    \/ XLINK_HREF \in e.attrib
    \/ \E i \in 1..Len(e.kids) : UsesXlink(e.kids[i])

\* ElementTree's serializer below the top element: with '' registered as the
\* prefix of SVG_NS, a tag of SVG_NS and a tag of no namespace are both
\* written as the bare local name
RECURSIVE SerializeBody(_)
SerializeBody(e) ==
    [name |-> e.tag[2], xmlns |-> Inherit, xlink |-> FALSE,
     attrs |-> {AttrName(k) : k \in e.attrib},
     kids |-> [i \in 1..Len(e.kids) |-> SerializeBody(e.kids[i])]]

\* ET.tostring(root, encoding='unicode', method='xml'): every namespace used
\* anywhere below is declared once, on the element serialized first
tostring(e) ==
    [SerializeBody(e) EXCEPT
        !.xmlns = IF UsesNamespace(e, SVG_NS) THEN SVG_NS ELSE Inherit,
        !.xlink = UsesXlink(e)]

\* '<svg xmlns="http://www.w3.org/2000/svg">' + ... + '</svg>'
WrapInSvg(m) ==
    [name |-> "svg", xmlns |-> SVG_NS, xlink |-> FALSE, attrs |-> {},
     kids |-> <<m>>]

\* ------------------------------------------------------ strip_text_from_svg
\* g_tags = [child for child in root if child.tag == '{...svg}g']
g_tags(root) == SelectSeq(root.kids, LAMBDA child : child.tag = SVG_G)

\* root = g_tags[0] if len(g_tags) == 1
EffectiveRoot(root) ==
    IF Len(g_tags(root)) = 1 THEN g_tags(root)[1] ELSE root

\* variant: the data-text test is lost
IsTextUse_AnyUse(child) == child.tag = SVG_USE

\* child.tag == '{...svg}use' and 'data-text' in child.attrib
IsTextUse(child) == child.tag = SVG_USE /\ DATA_TEXT \in child.attrib

\* variant: the scan descends into the children (root.iter() for list(root))
RECURSIVE RemoveTextUses_Deep(_)
RemoveTextUses_Deep(root) ==
    LET kept == SelectSeq(root.kids, LAMBDA child : ~IsTextUse(child))
    IN  [root EXCEPT !.kids = [i \in 1..Len(kept) |-> RemoveTextUses_Deep(kept[i])]]

\* for child in list(root): if ...: root.remove(child)
RemoveTextUses(root) ==
    [root EXCEPT !.kids = SelectSeq(root.kids, LAMBDA child : ~IsTextUse(child))]

\* if root.tag == '{...svg}g': wrap, else serialize the root itself
Serialize(root) ==
    IF root.tag = SVG_G
    THEN [closed |-> TRUE, root |-> WrapInSvg(tostring(root))]
    ELSE [closed |-> TRUE, root |-> tostring(root)]

strip_text_from_svg(text) ==
    LET parsed == fromstring(text)
    IN  IF parsed.raised
        THEN [raised |-> TRUE, text |-> NoMarkup]
        ELSE [raised |-> FALSE,
              text |-> Serialize(RemoveTextUses(EffectiveRoot(parsed.elem)))]

\* ------------------------------------------------------------------ inputs
Namespaces == {SVG_NS, NoNS}

Leaf(ns, name, attrib) == [tag |-> <<ns, name>>, attrib |-> attrib, kids |-> <<>>]

LeafElements ==
    {Leaf(ns, "use", {DATA_TEXT}) : ns \in Namespaces}
    \cup {Leaf(ns, "use", {XLINK_HREF}) : ns \in Namespaces}
    \cup {Leaf(ns, "path", {}) : ns \in Namespaces}
    \cup {Leaf(ns, "g", {}) : ns \in Namespaces}

\* A document is drawn as its elements in document order: depth[i] is the
\* nesting depth of the i-th element below the root and label[i] what it is.
IsShape(depth, n) ==
    \A i \in 1..n :
        /\ depth[i] >= 1
        /\ depth[i] <= (IF i = 1 THEN 1 ELSE depth[i - 1] + 1)

\* only a <g> is given children
IsLabelling(depth, label, n) ==
    \A i \in 1..(n - 1) : depth[i + 1] = depth[i] + 1 => label[i].tag[2] = "g"

\* the subtrees at depth d among the elements j, j+1, ... up to the first
\* element above depth d
RECURSIVE KidsFrom(_, _, _, _, _)
KidsFrom(depth, label, n, j, d) ==
    IF j > n \/ depth[j] < d THEN <<>>
    ELSE IF depth[j] = d
    THEN <<[label[j] EXCEPT !.kids = KidsFrom(depth, label, n, j + 1, d + 1)]>>
         \o KidsFrom(depth, label, n, j + 1, d)
    ELSE KidsFrom(depth, label, n, j + 1, d)

RootElement(ns, name, depth, label, n) ==
    [tag |-> <<ns, name>>, attrib |-> {}, kids |-> KidsFrom(depth, label, n, 1, 1)]

\* the markup of an element tree, declaring a default namespace wherever it
\* changes
RECURSIVE WriteElement(_, _)
WriteElement(e, dns) ==
    [name |-> e.tag[2],
     xmlns |-> IF e.tag[1] = dns THEN Inherit ELSE e.tag[1],
     xlink |-> FALSE,
     attrs |-> {AttrName(k) : k \in e.attrib},
     kids |-> [i \in 1..Len(e.kids) |-> WriteElement(e.kids[i], e.tag[1])]]

Unclosed == [closed |-> FALSE, root |-> WriteElement(Leaf(NoNS, "svg", {}), NoNS)]

\* the markup of a drawn document; x: the root declares the xlink prefix
Document(root, x) ==
    [closed |-> TRUE, root |-> [WriteElement(root, NoNS) EXCEPT !.xlink = x]]

El(name, xmlns, xlink, attrs, kids) ==
    [name |-> name, xmlns |-> xmlns, xlink |-> xlink, attrs |-> attrs, kids |-> kids]

\* <svg><g><use data-text="A"/><use xlink:href="#g1"/></g></svg>
RemovalExample ==
    [closed |-> TRUE,
     root |-> El("svg", Inherit, FALSE, {},
                 <<El("g", Inherit, FALSE, {},
                      <<El("use", Inherit, FALSE, {DATA_TEXT}, <<>>),
                        El("use", Inherit, FALSE, {"xlink:href"}, <<>>)>>)>>)]

\* the same document with xmlns="http://www.w3.org/2000/svg" and
\* xmlns:xlink="http://www.w3.org/1999/xlink" declared on the root
RemovalExampleDeclared ==
    [RemovalExample EXCEPT !.root.xmlns = SVG_NS, !.root.xlink = TRUE]

NotRun == [raised |-> FALSE, text |-> NoMarkup]

NoException == [kind |-> "none", pdf |-> 0, page |-> 0]
NoCall == [paper |-> "", recent |-> FALSE, pdf |-> "none", source |-> "none"]

\* the parts of the state a specification does not use
FilterIdle ==
    /\ svg_content = NoMarkup
    /\ filtered_svg = NotRun
    /\ refiltered_svg = NotRun
    /\ fpc = "idle"
BatchIdle ==
    /\ output_type = "text"
    /\ listing = <<>>
    /\ rasterize_requested = TRUE
    /\ pdfs = <<>>
    /\ dirs = {}
    /\ files = <<>>
    /\ opened = {}
    /\ pdf_i = 0
    /\ page_i = 0
    /\ raised = NoException
    /\ reported = FALSE
    /\ pc = "idle"
DownloadIdle ==
    /\ pdf_files = {}
    /\ source_files = {}
    /\ calls = 0
    /\ sleeps = 0
    /\ errors = 0
    /\ last = NoCall
    /\ dpc = "idle"

\* -------------------------------------------------------------- SpecFilter
FilterInit ==
    /\ \/ svg_content = Unclosed
       \/ \E n \in 0..(MaxElems - 1) : \E depth \in [1..n -> 1..n] :
             /\ IsShape(depth, n)
             /\ \E label \in [1..n -> LeafElements] :
                   /\ IsLabelling(depth, label, n)
                   /\ \E ns \in Namespaces, name \in {"svg", "g"}, x \in BOOLEAN :
                         svg_content
                             = Document(RootElement(ns, name, depth, label, n), x)
    /\ filtered_svg = NotRun
    /\ refiltered_svg = NotRun
    /\ fpc = "input"
    /\ BatchIdle
    /\ DownloadIdle

\* filtered_svg = strip_text_from_svg(svg)
Filter ==
    /\ fpc = "input"
    /\ filtered_svg' = strip_text_from_svg(svg_content)
    /\ fpc' = "filtered"
    /\ UNCHANGED <<svg_content, refiltered_svg, bvars, dvars>>

\* the filter applied to its own output
Refilter ==
    /\ fpc = "filtered"
    /\ ~filtered_svg.raised
    /\ refiltered_svg' = strip_text_from_svg(filtered_svg.text)
    /\ fpc' = "refiltered"
    /\ UNCHANGED <<svg_content, filtered_svg, bvars, dvars>>

FilterNext == Filter \/ Refilter

SpecFilter == FilterInit /\ [][FilterNext]_vars

\* ------------------------------------------------------------ process_pdfs
\* Python's None where a path is expected
None == <<>>
\* argparse default of --source
source_dir == "cs_CL-cs_AI"
default_width == 1920
default_height == 1080

OutputTypes == {"text", "svg", "html"}

\* the pages fitz gives: one whose SVG parses and that holds an image, and
\* one whose SVG does not parse
PageKinds == {"vector", "broken"}
\* page.get_svg_image(matrix=fitz.Identity)
get_svg_image(page) ==
    IF page = "broken" THEN Unclosed ELSE RemovalExampleDeclared
\* the xref of each entry of page.get_images(full=True)
get_images(page) == IF page = "broken" THEN <<>> ELSE <<7>>

SeqsUpTo(S, n) == UNION {[1..k -> S] : k \in 0..n}

\* a directory entry: a name that ends in .pdf or not, a file fitz.open
\* accepts or not, and its pages
EntryKinds ==
    {[pdf |-> FALSE, openable |-> FALSE, pages |-> <<>>],
     [pdf |-> TRUE, openable |-> FALSE, pages |-> <<>>]}
    \cup {[pdf |-> TRUE, openable |-> TRUE, pages |-> ps] :
             ps \in SeqsUpTo(PageKinds, MaxPages)}

\* entry i is named after its position, which is its arxiv_id
Listing(entries) ==
    [i \in 1..Len(entries) |->
        [id |-> i, pdf |-> entries[i].pdf, openable |-> entries[i].openable,
         pages |-> entries[i].pages]]

\* variant: an unknown type falls back to the text directory
get_output_dir_Fallback(source, type) ==
    IF type = "svg" THEN <<source, "extracted-svg">>
    ELSE <<source, "extracted-text">>

get_output_dir(source, type) ==
    IF type = "text" THEN <<source, "extracted-text">>
    ELSE IF type = "svg" THEN <<source, "extracted-svg">>
    ELSE None

extracted_dir == get_output_dir(source_dir, output_type)
\* os.path.join(extracted_dir, arxiv_id)
output_dir(arxiv_id) == Append(extracted_dir, arxiv_id)

text_path(dir, n) == dir \o <<"page", n, "_text.txt">>
img_path(dir, n, xref) == dir \o <<"page", n, "-image", xref, ".png">>
svg_path(dir, n) == dir \o <<"page", n, ".svg">>
png_path(dir, n) == dir \o <<"page", n, ".png">>

\* open(path, "w").write(content), also over an existing file
Write(fs, path, content) ==
    [q \in DOMAIN fs \cup {path} |-> IF q = path THEN content ELSE fs[q]]

RECURSIVE WriteImages(_, _, _, _)
WriteImages(fs, dir, n, images) ==
    IF Len(images) = 0 THEN fs
    ELSE WriteImages(Write(fs, img_path(dir, n, Head(images)),
                           [image |-> Head(images)]),
                     dir, n, Tail(images))

\* rasterize_svg_to_png: the PNG of the file's markup, at the default size
\* when the root has no width or no height
rasterize_svg_to_png(svg) ==
    LET root == fromstring(svg).elem
    IN  IF "width" \notin root.attrib \/ "height" \notin root.attrib
        THEN [rendered |-> svg, width |-> default_width, height |-> default_height]
        ELSE [rendered |-> svg, width |-> 0, height |-> 0]

Min(a, b) == IF a < b THEN a ELSE b

BatchInit ==
    /\ output_type \in OutputTypes
    /\ \E k \in 0..MaxDocs : \E entries \in [1..k -> EntryKinds] :
          listing = Listing(entries)
    /\ rasterize_requested \in (IF output_type = "svg" THEN BOOLEAN ELSE {FALSE})
    /\ pdfs = <<>>
    /\ dirs = {}
    /\ files = <<>>
    /\ opened = {}
    /\ pdf_i = 0
    /\ page_i = 0
    /\ raised = NoException
    /\ reported = FALSE
    /\ pc = "start"
    /\ FilterIdle
    /\ DownloadIdle

\* extracted_dir is None: print "Unsupported type" and return
Unsupported ==
    /\ pc = "start"
    /\ extracted_dir = None
    /\ reported' = TRUE
    /\ pc' = "done"
    /\ UNCHANGED <<output_type, listing, rasterize_requested, pdfs, dirs,
                   files, opened, pdf_i, page_i, raised, fvars, dvars>>

\* os.makedirs(extracted_dir), the .pdf entries of the listing, pdfs[:limit];
\* limit 0 stands for None, both are falsy
ListPdfs ==
    /\ pc = "start"
    /\ extracted_dir # None
    /\ dirs' = dirs \cup {extracted_dir}
    /\ \E limit \in 0..MaxLimit :
          LET found == SelectSeq(listing, LAMBDA f : f.pdf)
              cut == IF limit # 0 THEN SubSeq(found, 1, Min(limit, Len(found)))
                     ELSE found
          IN  /\ pdfs' = cut
              /\ pc' = IF Len(cut) = 0 THEN "done" ELSE "doc"
    /\ pdf_i' = 1
    /\ UNCHANGED <<output_type, listing, rasterize_requested, files,
                   opened, page_i, raised, reported, fvars, dvars>>

\* os.makedirs(output_dir) and fitz.open(pdf_path); nothing catches what
\* fitz.open raises
OpenPdf ==
    /\ pc = "doc"
    /\ dirs' = dirs \cup {output_dir(pdfs[pdf_i].id)}
    /\ IF pdfs[pdf_i].openable
       THEN /\ opened' = opened \cup {pdf_i}
            /\ page_i' = 0
            /\ pc' = "page"
            /\ UNCHANGED raised
       ELSE /\ raised' = [kind |-> "open", pdf |-> pdf_i, page |-> 0]
            /\ pc' = "raised"
            /\ UNCHANGED <<opened, page_i>>
    /\ UNCHANGED <<output_type, listing, rasterize_requested, pdfs, files,
                   pdf_i, reported, fvars, dvars>>

\* text mode, one page: page<N>_text.txt and one file per image
PageText ==
    /\ pc = "page"
    /\ output_type = "text"
    /\ page_i < Len(pdfs[pdf_i].pages)
    /\ LET dir == output_dir(pdfs[pdf_i].id)
           page == pdfs[pdf_i].pages[page_i + 1]
       IN  files' = WriteImages(Write(files, text_path(dir, page_i),
                                      [text |-> <<pdfs[pdf_i].id, page_i>>]),
                                dir, page_i, get_images(page))
    /\ page_i' = page_i + 1
    /\ UNCHANGED <<output_type, listing, rasterize_requested, pdfs, dirs,
                   opened, pdf_i, raised, reported, pc, fvars, dvars>>

\* variant: the parse error of a page is caught and the page skipped
PageSvg_CatchError ==
    /\ pc = "page"
    /\ output_type = "svg"
    /\ page_i < Len(pdfs[pdf_i].pages)
    /\ LET filtered == strip_text_from_svg(get_svg_image(pdfs[pdf_i].pages[page_i + 1]))
       IN  IF filtered.raised
           THEN /\ raised' = [kind |-> "parse", pdf |-> pdf_i, page |-> page_i]
                /\ page_i' = page_i + 1
                /\ UNCHANGED <<files, pc>>
           ELSE /\ files' = Write(files, svg_path(output_dir(pdfs[pdf_i].id), page_i),
                                  filtered.text)
                /\ pc' = "raster"
                /\ UNCHANGED <<raised, page_i>>
    /\ UNCHANGED <<output_type, listing, rasterize_requested, pdfs, dirs,
                   opened, pdf_i, reported, fvars, dvars>>

\* svg mode, one page: get_svg_image, strip_text_from_svg, write page<N>.svg;
\* a ParseError leaves extract_pdf_pymupdf and process_pdfs
PageSvg ==
    /\ pc = "page"
    /\ output_type = "svg"
    /\ page_i < Len(pdfs[pdf_i].pages)
    /\ LET filtered == strip_text_from_svg(get_svg_image(pdfs[pdf_i].pages[page_i + 1]))
       IN  IF filtered.raised
           THEN /\ raised' = [kind |-> "parse", pdf |-> pdf_i, page |-> page_i]
                /\ pc' = "raised"
                /\ UNCHANGED files
           ELSE /\ files' = Write(files, svg_path(output_dir(pdfs[pdf_i].id), page_i),
                                  filtered.text)
                /\ pc' = "raster"
                /\ UNCHANGED raised
    /\ UNCHANGED <<output_type, listing, rasterize_requested, pdfs, dirs,
                   opened, pdf_i, page_i, reported, fvars, dvars>>

\* variant: the PNG is made only on request
RasterizePage_OnRequest ==
    /\ pc = "raster"
    /\ LET dir == output_dir(pdfs[pdf_i].id)
       IN  files' = IF rasterize_requested
                    THEN Write(files, png_path(dir, page_i),
                               rasterize_svg_to_png(files[svg_path(dir, page_i)]))
                    ELSE files
    /\ page_i' = page_i + 1
    /\ pc' = "page"
    /\ UNCHANGED <<output_type, listing, rasterize_requested, pdfs, dirs,
                   opened, pdf_i, raised, reported, fvars, dvars>>

\* rasterize_svg_to_png(svg_path, png_path), for every page
RasterizePage ==
    /\ pc = "raster"
    /\ LET dir == output_dir(pdfs[pdf_i].id)
       IN  files' = Write(files, png_path(dir, page_i),
                          rasterize_svg_to_png(files[svg_path(dir, page_i)]))
    /\ page_i' = page_i + 1
    /\ pc' = "page"
    /\ UNCHANGED <<output_type, listing, rasterize_requested, pdfs, dirs,
                   opened, pdf_i, raised, reported, fvars, dvars>>

\* the pages of the document are done: the next pdf_name, or the end
NextPdf ==
    /\ pc = "page"
    /\ page_i = Len(pdfs[pdf_i].pages)
    /\ IF pdf_i < Len(pdfs)
       THEN pdf_i' = pdf_i + 1 /\ pc' = "doc"
       ELSE pc' = "done" /\ UNCHANGED pdf_i
    /\ UNCHANGED <<output_type, listing, rasterize_requested, pdfs, dirs,
                   files, opened, page_i, raised, reported, fvars, dvars>>

Next ==
    \/ Unsupported
    \/ ListPdfs
    \/ OpenPdf
    \/ PageText
    \/ PageSvg
    \/ RasterizePage
    \/ NextPdf

Spec == BatchInit /\ [][Next]_vars

\* ------------------------------------------------------ fetch_and_download
WAIT_TIME == 3
Papers == {"2401.00001v1", "2401.00002v1"}
\* --include-source is store_true with default True: it is always set
include_source == TRUE

Downloads == {"ok", "error", "partial"}

\* variant: the exists() test is lost
PdfOutcomes_NoCheck(exists) == Downloads

\* if not pdf_file_path.exists(): download_pdf succeeds, or raises before or
\* after the file is created; else "already exists, skipping"
PdfOutcomes(exists) == IF exists THEN {"skipped"} ELSE Downloads

\* the same for the source archive, when source_output_path is not None
SourceOutcomes(given, exists) ==
    IF ~given THEN {"none"}
    ELSE IF exists THEN {"skipped"}
    ELSE Downloads

Failed(outcome) == IF outcome \in {"error", "partial"} THEN 1 ELSE 0

DownloadInit ==
    /\ pdf_files \in SUBSET Papers
    /\ source_files \in SUBSET Papers
    /\ calls = 0
    /\ sleeps = 0
    /\ errors = 0
    /\ last = NoCall
    /\ dpc = "loop"
    /\ FilterIdle
    /\ BatchIdle

\* a result updated since the cutoff: download_paper(paper, ...)
DownloadPaper ==
    /\ dpc = "loop"
    /\ calls < MaxCalls
    /\ \E paper \in Papers :
       \E pdf \in PdfOutcomes(paper \in pdf_files) :
       \E source \in SourceOutcomes(include_source, paper \in source_files) :
          /\ pdf_files' = IF pdf \in {"ok", "partial"}
                          THEN pdf_files \cup {paper} ELSE pdf_files
          /\ sleeps' = IF pdf = "ok" THEN sleeps + WAIT_TIME ELSE sleeps
          /\ source_files' = IF source \in {"ok", "partial"}
                             THEN source_files \cup {paper} ELSE source_files
          /\ errors' = errors + Failed(pdf) + Failed(source)
          /\ last' = [paper |-> paper, recent |-> TRUE, pdf |-> pdf,
                      source |-> source]
    /\ calls' = calls + 1
    /\ UNCHANGED <<dpc, fvars, bvars>>

\* a result older than the cutoff is passed over
SkipOld ==
    /\ dpc = "loop"
    /\ calls < MaxCalls
    /\ \E paper \in Papers :
          last' = [paper |-> paper, recent |-> FALSE, pdf |-> "none",
                   source |-> "none"]
    /\ calls' = calls + 1
    /\ UNCHANGED <<pdf_files, source_files, sleeps, errors, dpc, fvars, bvars>>

\* client.results raises UnexpectedEmptyPageError: "end of job"
EmptyPage ==
    /\ dpc = "loop"
    /\ dpc' = "done"
    /\ last' = [NoCall EXCEPT !.paper = "UnexpectedEmptyPageError"]
    /\ UNCHANGED <<pdf_files, source_files, calls, sleeps, errors, fvars, bvars>>

\* client.results has no more results
Exhausted ==
    /\ dpc = "loop"
    /\ dpc' = "done"
    /\ last' = NoCall
    /\ UNCHANGED <<pdf_files, source_files, calls, sleeps, errors, fvars, bvars>>

\* the script is run again over the same output directories
Rerun ==
    /\ dpc = "done"
    /\ calls < MaxCalls
    /\ dpc' = "loop"
    /\ last' = NoCall
    /\ UNCHANGED <<pdf_files, source_files, calls, sleeps, errors, fvars, bvars>>

DownloadNext ==
    \/ DownloadPaper
    \/ SkipOld
    \/ EmptyPage
    \/ Exhausted
    \/ Rerun

SpecDownload == DownloadInit /\ [][DownloadNext]_vars

\* ------------------------------------------- reading markup for the claims
\* an element as written, without its namespace declarations
Shallow(m) == <<m.name, m.attrs>>

RECURSIVE DeepShape(_)
DeepShape(m) ==
    [name |-> m.name, attrs |-> m.attrs,
     kids |-> [i \in 1..Len(m.kids) |-> DeepShape(m.kids[i])]]

\* the elements of a document in document order
RECURSIVE Preorder(_), PreorderAll(_)
Preorder(m) == <<Shallow(m)>> \o PreorderAll(m.kids)
PreorderAll(ks) ==
    IF Len(ks) = 0 THEN <<>> ELSE Preorder(Head(ks)) \o PreorderAll(Tail(ks))

RECURSIVE IsSubseq(_, _)
IsSubseq(s, t) ==
    IF Len(s) = 0 THEN TRUE
    ELSE IF Len(t) = 0 THEN FALSE
    ELSE IF Head(s) = Head(t) THEN IsSubseq(Tail(s), Tail(t))
    ELSE IsSubseq(s, Tail(t))

RECURSIVE CountUses(_), CountUsesIn(_)
CountUses(m) == (IF m.name = "use" THEN 1 ELSE 0) + CountUsesIn(m.kids)
CountUsesIn(ks) ==
    IF Len(ks) = 0 THEN 0 ELSE CountUses(Head(ks)) + CountUsesIn(Tail(ks))

\* written as a <use ... data-text=...>, whatever its namespace
MarkedUse(sh) == sh[1] = "use" /\ DATA_TEXT \in sh[2]

Filtered == fpc # "input" /\ ~filtered_svg.raised

InRoot == fromstring(svg_content).elem
InEff == EffectiveRoot(InRoot)
Promoted == Len(g_tags(InRoot)) = 1
\* the element of the output that stands for the effective root
OutEff ==
    IF InEff.tag = SVG_G THEN filtered_svg.text.root.kids[1]
    ELSE filtered_svg.text.root
ShallowKids(ks) == [i \in 1..Len(ks) |-> Shallow(ks[i])]
DeepKids(ks) == [i \in 1..Len(ks) |-> DeepShape(ks[i])]
\* the effective root's children as the input wrote them
InEffKids == [i \in 1..Len(InEff.kids) |-> SerializeBody(InEff.kids[i])]
InEffKept ==
    SelectSeq(InEff.kids,
              LAMBDA c : ~(c.tag[1] = SVG_NS /\ c.tag[2] = "use"
                           /\ DATA_TEXT \in c.attrib))
InEffKeptKids == [i \in 1..Len(InEffKept) |-> SerializeBody(InEffKept[i])]

\* ------------------------------------------------------------------ claims

\* C1: every element of the input that is not a <use>, and every <use>
\* without data-text, is present in the output, unchanged and in its original
\* order; only <use data-text> elements are missing, also when the root has
\* one <g> child together with other direct children. (The root itself is
\* left out: promotion replaces it by a minimal <svg>.)
C1_VisualPreservation ==
    Filtered =>
        IsSubseq(SelectSeq(PreorderAll(svg_content.root.kids),
                           LAMBDA sh : ~MarkedUse(sh)),
                 Preorder(filtered_svg.text.root))

\* C2 (as claimed): every direct child of the effective root that is a <use>
\* with data-text is removed and every other direct child is retained, and
\* for <svg><g><use data-text="A"/><use xlink:href="#g1"/></g></svg> the
\* output contains exactly one use element.
C2_RemovalRuleAsClaimed ==
    fpc = "filtered" =>
        /\ ~filtered_svg.raised =>
              ShallowKids(OutEff.kids) = ShallowKids(InEffKeptKids)
        /\ svg_content = RemovalExample =>
              /\ ~filtered_svg.raised
              /\ CountUses(filtered_svg.text.root) = 1

\* C2 (amended): every direct child of the effective root that is a <use> of
\* the SVG namespace with data-text is removed and every other direct child
\* is retained in order, and for the example with the svg and xlink
\* namespaces declared on its root the output contains exactly one use.
C2_RemovalRule ==
    fpc = "filtered" =>
        /\ ~filtered_svg.raised =>
              ShallowKids(OutEff.kids) = ShallowKids(InEffKeptKids)
        /\ svg_content = RemovalExampleDeclared =>
              /\ ~filtered_svg.raised
              /\ CountUses(filtered_svg.text.root) = 1

C2_Witness ==
    /\ fpc = "filtered"
    /\ svg_content = RemovalExampleDeclared
    /\ ~filtered_svg.raised
    /\ ShallowKids(OutEff.kids) = <<<<"use", {"xlink:href"}>>>>

\* C3: a root with exactly one <g> child and nothing else gives a minimal
\* <svg> around a single <g> with that child's content (less the removed
\* duplicates); a root with zero or at least two <g> children is not
\* promoted and the output's root is the input's root, not re-wrapped.
C3_RootPromotion ==
    Filtered =>
        /\ (Promoted /\ Len(InRoot.kids) = 1) =>
              /\ Shallow(filtered_svg.text.root) = <<"svg", {}>>
              /\ filtered_svg.text.root.xmlns = SVG_NS
              /\ Len(filtered_svg.text.root.kids) = 1
              /\ Shallow(filtered_svg.text.root.kids[1]) = <<"g", {}>>
              /\ DeepKids(filtered_svg.text.root.kids[1].kids)
                    = DeepKids(InEffKeptKids)
        /\ ~Promoted =>
              /\ Shallow(filtered_svg.text.root) = Shallow(svg_content.root)
              /\ DeepKids(filtered_svg.text.root.kids) = DeepKids(InEffKeptKids)

\* C4: only the direct children of the effective root are inspected: every
\* retained child keeps its whole subtree, so a <use data-text> inside a
\* nested <g> is still in the output.
C4_DepthLimit ==
    Filtered => DeepKids(OutEff.kids) = DeepKids(InEffKeptKids)

\* root promoted, and inside it a <g> holding an SVG <use data-text> that
\* the output still has
C4_Witness ==
    /\ Filtered
    /\ Promoted
    /\ \E i \in 1..Len(InEff.kids) :
          /\ InEff.kids[i].tag = SVG_G
          /\ \E j \in 1..Len(InEff.kids[i].kids) :
                IsTextUse(InEff.kids[i].kids[j])
    /\ \E i \in 1..Len(OutEff.kids) :
          /\ OutEff.kids[i].name = "g"
          /\ \E j \in 1..Len(OutEff.kids[i].kids) :
                MarkedUse(Shallow(OutEff.kids[i].kids[j]))

\* C5: filtering the filter's own output gives a structurally identical
\* document: both parse to the same element tree.
C5_Idempotent ==
    fpc = "refiltered" =>
        /\ ~refiltered_svg.raised
        /\ fromstring(refiltered_svg.text) = fromstring(filtered_svg.text)

\* the loop of process_pdfs has got to pdfs[j]
Reached(j) == pc # "start" /\ j <= pdf_i
Terminated == pc \in {"done", "raised"}
HasFile(path) == path \in DOMAIN files

\* C6: in a batch, a document that cannot be opened fails alone: the failure
\* is caught at the document level and every later document is processed.
C6_FailureConfined ==
    (Terminated /\ raised.kind # "parse") =>
        \A j \in 1..Len(pdfs) :
            (\E i \in 1..(j - 1) : ~pdfs[i].openable) =>
                /\ Reached(j)
                /\ pdfs[j].openable => j \in opened

\* C7: in svg mode a parse error of the filter on page k is caught nowhere:
\* the run ends there, page k and the later pages of the document have no
\* file, and the files of the pages before k are in place.
C7_PageErrorAborts ==
    raised.kind = "parse" =>
        /\ pc = "raised"
        /\ pdf_i = raised.pdf /\ page_i = raised.page
        /\ \A n \in 0..(Len(pdfs[raised.pdf].pages) - 1) :
              LET dir == output_dir(pdfs[raised.pdf].id)
              IN  IF n < raised.page
                  THEN HasFile(svg_path(dir, n)) /\ HasFile(png_path(dir, n))
                  ELSE ~HasFile(svg_path(dir, n)) /\ ~HasFile(png_path(dir, n))

\* the second of three pages failed to parse: the first page's files are
\* there, the second's and the third's are not
C7_Witness ==
    /\ raised.kind = "parse"
    /\ raised.page = 1
    /\ Len(pdfs[raised.pdf].pages) = 3
    /\ HasFile(svg_path(output_dir(pdfs[raised.pdf].id), 0))
    /\ HasFile(png_path(output_dir(pdfs[raised.pdf].id), 0))
    /\ ~HasFile(svg_path(output_dir(pdfs[raised.pdf].id), 2))

\* C8: an output type other than 'text' and 'svg' is reported and skipped
\* without an exception: get_output_dir returns None, and process_pdfs makes
\* no directory, opens no document and writes no file.
C8_UnsupportedSkipped ==
    output_type \notin {"text", "svg"} =>
        /\ get_output_dir(source_dir, output_type) = None
        /\ dirs = {}
        /\ opened = {}
        /\ DOMAIN files = {}
        /\ raised = NoException
        /\ pc \in {"start", "done"}
        /\ pc = "done" => reported

C8_Witness ==
    /\ output_type = "html"
    /\ pc = "done"
    /\ reported
    /\ \E i \in 1..Len(listing) : listing[i].pdf /\ listing[i].openable
    /\ dirs = {}

\* page n of pdfs[j] has been gone through without an exception
PageDone(j, n) ==
    /\ Reached(j)
    /\ n < Len(pdfs[j].pages)
    /\ \/ j < pdf_i
       \/ j \in opened /\ n < page_i
       \/ pc = "done"

\* what the filter makes of each kind of page
FilteredPage == [page \in PageKinds |-> strip_text_from_svg(get_svg_image(page))]

\* the pages of svg mode are taken in order, one at a time, and page<N>.svg
\* holds the filter's output before page<N>.png is made from that file
SvgPagesInOrder ==
    output_type = "svg" =>
        \A j \in 1..Len(pdfs) : \A n \in 0..(Len(pdfs[j].pages) - 1) :
            LET dir == output_dir(pdfs[j].id)
            IN  /\ HasFile(png_path(dir, n)) =>
                      /\ HasFile(svg_path(dir, n))
                      /\ files[png_path(dir, n)].rendered = files[svg_path(dir, n)]
                /\ HasFile(svg_path(dir, n)) =>
                      /\ files[svg_path(dir, n)] = FilteredPage[pdfs[j].pages[n + 1]].text
                      /\ \A m \in 0..(n - 1) :
                            HasFile(svg_path(dir, m)) /\ HasFile(png_path(dir, m))
                      /\ \A i \in 1..(j - 1) : \A m \in 0..(Len(pdfs[i].pages) - 1) :
                            HasFile(png_path(output_dir(pdfs[i].id), m))

C10_DownloadOnce ==
    [][(calls' = calls + 1 /\ last'.recent) =>
          LET paper == last'.paper
          IN  /\ paper \in pdf_files =>
                    last'.pdf = "skipped" /\ pdf_files' = pdf_files
              /\ paper \notin pdf_files => last'.pdf \in Downloads
              /\ paper \in source_files =>
                    last'.source = "skipped" /\ source_files' = source_files
              /\ paper \notin source_files => last'.source \in Downloads
              /\ sleeps' = IF last'.pdf = "ok" THEN sleeps + WAIT_TIME ELSE sleeps
              /\ errors' = errors + Failed(last'.pdf) + Failed(last'.source)
              /\ dpc' = "loop"
      ]_vars

\* after a failed download and a successful one, a paper is found present
\* and skipped
C10_Witness ==
    /\ errors > 0
    /\ sleeps > 0
    /\ last.recent
    /\ last.pdf = "skipped"
    /\ last.source = "skipped"
    /\ calls >= 3

====
